---------------------------- MODULE Spec2Model ----------------------------
(***************************************************************************)
(* Ring feature extraction (ehtim/features/rex.py): the peak extractor,    *)
(* the polar resampler, the center search, the per-image pipeline          *)
(* FindProfileSingle and the batch driver FindProfiles.                    *)
(*                                                                         *)
(* Brightness values and radii are integers; every derived quantity is an  *)
(* exact rational, or one of the non-finite values NaN, +inf, -inf that    *)
(* numpy's float64 division produces.  Rounding of float64 is not          *)
(* modelled.                                                               *)
(***************************************************************************)
EXTENDS Integers, Sequences, FiniteSets, TLC

VARIABLES
    call,       \* the function call under test in the pure-function specifications
    tie,        \* which of several tied maxima np.argsort places last (build dependent)
    cfg,        \* arguments of FindProfileSingle
    pc,         \* position of FindProfileSingle
    im,         \* imvec of the regridded image used for the final profile
    im_search,  \* imvec of the regridded copy used by the center search
    seed,       \* best grid point found by the brute-force stage
    res,        \* center returned by findCenter
    pp,         \* the Profiles object built at res
    files,      \* report files that exist under postprocdir
    ret,        \* value returned by FindProfileSingle
    steps,      \* the pipeline stages executed so far, in order
    batch       \* state of FindProfiles / Parloop.run_loop

vars == <<call, tie, cfg, pc, im, im_search, seed, res, pp, files, ret, steps, batch>>

---------------------------------------------------------------------------
(* float64 values: exact rationals and the non-finite values               *)

Abs(x) == IF x < 0 THEN -x ELSE x

RECURSIVE Gcd(_, _)
Gcd(a, b) == IF b = 0 THEN a ELSE Gcd(b, a % b)

NaN  == [k |-> "nan", n |-> 0, d |-> 1]
PInf == [k |-> "inf", n |-> 1, d |-> 1]
NInf == [k |-> "inf", n |-> -1, d |-> 1]

\* the rational n/d, d # 0, in lowest terms with a positive denominator
Q(n, d) ==
    LET g == Gcd(Abs(n), Abs(d))
        s == IF d < 0 THEN -1 ELSE 1
    IN  [k |-> "num", n |-> (s * n) \div g, d |-> (s * d) \div g]

I(n) == [k |-> "num", n |-> n, d |-> 1]

IsNaN(a) == a.k = "nan"
IsInf(a) == a.k = "inf"
IsNum(a) == a.k = "num"
Sign(a) == IF a.n > 0 THEN 1 ELSE IF a.n < 0 THEN -1 ELSE 0

QNeg(a) == IF IsNaN(a) THEN NaN ELSE [a EXCEPT !.n = -a.n]

QAdd(a, b) ==
    IF IsNaN(a) \/ IsNaN(b) THEN NaN
    ELSE IF IsInf(a) /\ IsInf(b) THEN (IF a.n = b.n THEN a ELSE NaN)
    ELSE IF IsInf(a) THEN a
    ELSE IF IsInf(b) THEN b
    ELSE LET g == Gcd(a.d, b.d)
         IN  Q(a.n * (b.d \div g) + b.n * (a.d \div g), (a.d \div g) * b.d)

QSub(a, b) == QAdd(a, QNeg(b))

QMul(a, b) ==
    IF IsNaN(a) \/ IsNaN(b) THEN NaN
    ELSE IF IsInf(a) \/ IsInf(b)
         THEN (IF Sign(a) * Sign(b) = 0 THEN NaN
               ELSE IF Sign(a) * Sign(b) > 0 THEN PInf ELSE NInf)
    ELSE LET g == Gcd(Abs(a.n), b.d)
             h == Gcd(Abs(b.n), a.d)
         IN  Q((a.n \div g) * (b.n \div h), (a.d \div h) * (b.d \div g))

\* numpy float64 division: x/0 is +-inf, 0/0 and inf/inf are NaN, no exception
QDiv(a, b) ==
    IF IsNaN(a) \/ IsNaN(b) THEN NaN
    ELSE IF IsInf(a) /\ IsInf(b) THEN NaN
    ELSE IF IsInf(a) THEN (IF Sign(a) * (IF b.n < 0 THEN -1 ELSE 1) > 0 THEN PInf ELSE NInf)
    ELSE IF IsInf(b) THEN I(0)
    ELSE IF b.n = 0
         THEN (IF a.n = 0 THEN NaN ELSE IF a.n > 0 THEN PInf ELSE NInf)
    ELSE QMul(a, Q(b.d, b.n))

QAbs(a) == IF IsNaN(a) THEN NaN ELSE [a EXCEPT !.n = Abs(a.n)]

\* a < b as float64 compares: False whenever an operand is NaN
QLt(a, b) ==
    IF IsNaN(a) \/ IsNaN(b) THEN FALSE
    ELSE IF IsInf(a) THEN a.n < 0 /\ ~(IsInf(b) /\ b.n < 0)
    ELSE IF IsInf(b) THEN b.n > 0
    ELSE LET g == Gcd(a.d, b.d)
         IN  a.n * (b.d \div g) < b.n * (a.d \div g)

QLe(a, b) == IF IsNaN(a) \/ IsNaN(b) THEN FALSE ELSE ~QLt(b, a)

\* a function over 1..n as the array it denotes, its elements evaluated once
Arr(f) == f @@ <<>>

RECURSIVE QSumTo(_, _)
QSumTo(s, n) == IF n = 0 THEN I(0) ELSE QAdd(QSumTo(s, n - 1), s[n])

QSum(s) == QSumTo(s, Len(s))

\* np.mean of a non-empty sequence
QMean(s) == QDiv(QSum(s), I(Len(s)))

\* np.std(s)**2: the population variance (np.std is its square root)
QVar(s) ==
    LET m == QMean(s)
    IN  QMean(Arr([i \in 1..Len(s) |-> QMul(QSub(s[i], m), QSub(s[i], m))]))

---------------------------------------------------------------------------
(* Peak extractor                                                          *)

\* np.linspace(0, rmax, nrs); the model takes rmax a multiple of nrs-1
linspace0(rmax, nrs) == Arr([i \in 1..nrs |-> Q((i - 1) * rmax, nrs - 1)])

\* the largest value of a profile of finite values
MaxOf(prof) ==
    CHOOSE v \in {prof[i] : i \in 1..Len(prof)} :
        \A i \in 1..Len(prof) : QLe(prof[i], v)

Tied(prof) ==
    LET m == MaxOf(prof)
    IN  {i \in 1..Len(prof) : prof[i] = m}

FirstOcc(prof) == CHOOSE i \in Tied(prof) : \A j \in Tied(prof) : i <= j
LastOcc(prof) == CHOOSE i \in Tied(prof) : \A j \in Tied(prof) : j <= i

\* mutant: the index np.argsort places first (the minimum)
ArgsortFirst(prof) ==
    CHOOSE i \in 1..Len(prof) : \A j \in 1..Len(prof) :
        QLt(prof[i], prof[j]) \/ (prof[i] = prof[j] /\ i <= j)

\* np.argsort(prof)[-1], 1-based.  The default kind is quicksort, which is not
\* stable: the ascending order puts an index of the maximum last, and which one
\* of several tied indices it is depends on the sort the build uses.  tie = 0 is
\* the stable order (the last occurrence); tie = t is the t-th tied index before
\* it, down to the first occurrence.
ArgsortLast(prof) ==
    LET T == Tied(prof)
        c == Cardinality(T)
        rank == IF tie >= c THEN 1 ELSE c - tie
    IN  CHOOSE i \in T : Cardinality({j \in T : j <= i}) = rank

\* mutant: the step is added in the wrong direction
quad_interp_radius_flipped(r_max, dr, val_list) ==
    LET v_L == val_list[1]
        v_max == val_list[2]
        v_R == val_list[3]
        den == QSub(QAdd(v_L, v_R), QMul(I(2), v_max))
        rpk == QSub(r_max, QDiv(QMul(dr, QSub(v_L, v_R)), QMul(I(2), den)))
        num == QSub(QSub(QMul(QMul(I(8), v_max), QAdd(v_L, v_R)),
                         QMul(QSub(v_L, v_R), QSub(v_L, v_R))),
                    QMul(I(16), QMul(v_max, v_max)))
    IN  <<rpk, QDiv(num, QMul(I(8), den))>>

quad_interp_radius(r_max, dr, val_list) ==
    LET v_L == val_list[1]
        v_max == val_list[2]
        v_R == val_list[3]
        den == QSub(QAdd(v_L, v_R), QMul(I(2), v_max))
        rpk == QAdd(r_max, QDiv(QMul(dr, QSub(v_L, v_R)), QMul(I(2), den)))
        num == QSub(QSub(QMul(QMul(I(8), v_max), QAdd(v_L, v_R)),
                         QMul(QSub(v_L, v_R), QSub(v_L, v_R))),
                    QMul(I(16), QMul(v_max, v_max)))
    IN  <<rpk, QDiv(num, QMul(I(8), den))>>

\* mutant: the last index is refined like an interior one
pkrad_at_refine_last(self, prof, pkpos) ==
    IF pkpos > 1
    THEN quad_interp_radius(self.rs[pkpos], self.dr,
             <<prof[pkpos - 1], prof[pkpos],
               IF pkpos < self.nrs THEN prof[pkpos + 1] ELSE I(0)>>)
    ELSE <<self.rs[pkpos], prof[pkpos]>>

\* calc_pkrad_from_prof after pkpos = args[-1]: the peak radius and value
pkrad_at(self, prof, pkpos) ==
    IF pkpos > 1 /\ pkpos < self.nrs
    THEN quad_interp_radius(self.rs[pkpos], self.dr,
             <<prof[pkpos - 1], prof[pkpos], prof[pkpos + 1]>>)
    ELSE <<self.rs[pkpos], prof[pkpos]>>

calc_pkrad_from_prof(self, prof) == pkrad_at(self, prof, ArgsortLast(prof))

---------------------------------------------------------------------------
(* Calls of the pure functions on bounded inputs                           *)

MaxNrs == 5      \* longest profile tried
MaxVal == 2      \* largest brightness in a profile tried
MaxTie == 2      \* tie orders tried
MaxCoef == 2     \* parabola coefficients range over -MaxCoef..MaxCoef
MaxRad == 2      \* r_max and dr of the parabola samples

\* the part of a Profiles object the peak extractor reads (rmax = nrs-1, dr = 1)
PeakSelf(nrs) ==
    LET rs == linspace0(nrs - 1, nrs)
    IN  [rs |-> rs, nrs |-> nrs, dr |-> QSub(rs[nrs], rs[nrs - 1])]

PeakCalls ==
    {[f |-> "calc_pkrad_from_prof", self |-> PeakSelf(Len(p)),
      prof |-> [i \in 1..Len(p) |-> I(p[i])], out |-> <<>>] :
        p \in UNION {[1..n -> 0..MaxVal] : n \in 3..MaxNrs}}

Parabola(a, b, c, r) == I(a * r * r + b * r + c)

QuadCalls ==
    {[f |-> "quad_interp_radius", a |-> a, b |-> b, c |-> c,
      r_max |-> I(r), dr |-> I(dr),
      val_list |-> <<Parabola(a, b, c, r - dr), Parabola(a, b, c, r),
                     Parabola(a, b, c, r + dr)>>,
      out |-> <<>>] :
        a \in (-MaxCoef)..(-1), b \in (-MaxCoef)..MaxCoef, c \in 0..MaxCoef,
        r \in 0..MaxRad, dr \in 1..MaxRad}

\* pipeline variables while only a pure function is exercised
PipelineIdle ==
    /\ cfg = <<>>
    /\ pc = "idle"
    /\ im = <<>>
    /\ im_search = <<>>
    /\ seed = <<>>
    /\ res = <<>>
    /\ pp = <<>>
    /\ files = {}
    /\ ret = "unset"
    /\ steps = <<>>

pipeVars == <<cfg, pc, im, im_search, seed, res, pp, files, ret, steps, batch>>

InitFn ==
    /\ call \in PeakCalls \cup QuadCalls
    /\ tie \in 0..MaxTie
    /\ PipelineIdle
    /\ batch = <<>>

PeakCall ==
    /\ call.f = "calc_pkrad_from_prof"
    /\ call.out = <<>>
    /\ LET r == calc_pkrad_from_prof(call.self, call.prof)
       IN  call' = [call EXCEPT !.out =
                       [pkpos |-> ArgsortLast(call.prof), pk |-> r[1], vpk |-> r[2]]]
    /\ UNCHANGED <<tie, pipeVars>>

QuadCall ==
    /\ call.f = "quad_interp_radius"
    /\ call.out = <<>>
    /\ LET r == quad_interp_radius(call.r_max, call.dr, call.val_list)
       IN  call' = [call EXCEPT !.out = [rpk |-> r[1], vpk |-> r[2]]]
    /\ UNCHANGED <<tie, pipeVars>>

NextFn == PeakCall \/ QuadCall

SpecFn == InitFn /\ [][NextFn]_vars

PeakDone == call.f = "calc_pkrad_from_prof" /\ call.out # <<>>
QuadDone == call.f = "quad_interp_radius" /\ call.out # <<>>

---------------------------------------------------------------------------
(* Images and the polar resampler                                          *)

HalfPix == 4        \* half the pixel count per axis of the regridded image
SearchHalf == 1     \* half-width of the search window, in pixels
RHalf == 2          \* half the largest profile radius, in pixels
MaxPolish == 2      \* simplex moves of the fmin finisher that are followed

NPIX == 2 * HalfPix              \* pixels per axis; psize is one unit of radius
RMAX == 2 * RHalf                \* maximum radius in every profile slice
RMIN == 1                        \* radius threshold for averaging inside ring
NRS == RMAX + 1                  \* radial points in the final profile (dr = 1)
NRS_SEARCH == RHalf + 1          \* radial points in the search profiles (dr = 2)
NRAYS == 4 + 1                   \* rays at quarter turns, both 0 and 2 pi included
NRAYS_SEARCH == NRAYS
RPRIOR_MIN == I(RHalf)           \* rmin_search: the least mean diameter accepted
RPRIOR_MAX == I(RMAX + RHalf)    \* rmax_search: the greatest mean diameter accepted
THRESH == Q(1, 20)               \* thresh_search
FOVP_SEARCH == Q(SearchHalf, NPIX)   \* fov_search
NSEARCH == 2 * SearchHalf + 1    \* n_search: one grid point per pixel
NORMFLUX == 1
TbFactor == 2                    \* 3.254e13/(rf^2 psize^2), a positive constant
Bright == 40                     \* brightness of a ring pixel
Halo == 1                        \* brightness just outside the ring

Pixels == 0..(NPIX - 1)

\* brightness at sky position (x, y) of a ring of radius R about (cx, cy):
\* Bright where the rounded distance is R, Halo where it is R + 1
RingPix(cx, cy, R, x, y) ==
    LET d2 == (x - cx) * (x - cx) + (y - cy) * (y - cy)
    IN  IF R * R - R < d2 /\ d2 <= R * R + R THEN Bright
        ELSE IF (R + 1) * (R + 1) - (R + 1) < d2 /\ d2 <= (R + 1) * (R + 1) + (R + 1)
             THEN Halo
        ELSE 0

\* imvec is row-major with the top row first: sky row y is stored as row ydim-1-y
VecIndex(x, y) == (NPIX - 1 - y) * NPIX + x + 1

RingVec(cx, cy, R) ==
    [idx \in 1..(NPIX * NPIX) |->
        RingPix(cx, cy, R, (idx - 1) % NPIX, NPIX - 1 - ((idx - 1) \div NPIX))]

\* an Image: pixel vectors of Stokes I, Q and U (qvec, uvec empty when absent)
RingImage(cx, cy, R, pol) ==
    [imvec |-> RingVec(cx, cy, R),
     qvec |-> IF pol \in {"q", "qu"} THEN RingVec(cx, cy, R) ELSE <<>>,
     uvec |-> IF pol = "qu" THEN RingVec(cy, cx, R) ELSE <<>>,
     xdim |-> NPIX, ydim |-> NPIX]

RingCenters == {HalfPix, HalfPix + SearchHalf + 1}

RawImages ==
    {RingImage(cx, cy, R, pol) :
        cx \in RingCenters, cy \in RingCenters, R \in 1..(RHalf + 1),
        pol \in {"none", "q", "qu"}}

\* regrid_image(imsize, npix) of an image given on that grid already: a new
\* Image holding the same pixels
regrid_image(image) == image

VecMax(v) == CHOOSE m \in {v[i] : i \in 1..Len(v)} : \A i \in 1..Len(v) : v[i] <= m

RECURSIVE VecSumTo(_, _)
VecSumTo(v, n) == IF n = 0 THEN 0 ELSE VecSumTo(v, n - 1) + v[n]

\* im.total_flux()
VecSum(v) == VecSumTo(v, Len(v))

\* im_search.imvec[im_search.imvec < thresh_search*np.max(im_search.imvec)] = 0
threshold(imvec, thresh) ==
    [i \in 1..Len(imvec) |->
        IF QLt(I(imvec[i]), QMul(thresh, I(VecMax(imvec)))) THEN 0 ELSE imvec[i]]

Clamp(c) == IF c < 0 THEN 0 ELSE IF c > NPIX - 1 THEN NPIX - 1 ELSE c

\* interp(xx, yy)[0] at a pixel position: the interpolating spline takes the
\* pixel's value there; outside the frame interp2d extrapolates to the nearest
\* pixel.  vec is imvec, qvec or uvec; the values are scaled by factor.
interp(vec, xx, yy) == I(TbFactor * vec[VecIndex(Clamp(xx), Clamp(yy))])

\* sin and cos of thetas[j] = 2 pi (j-1)/(nrays-1) for nrays = 5
SinTheta(j) == <<0, 1, 0, -1, 0>>[j]
CosTheta(j) == <<1, 0, -1, 0, 1>>[j]

\* ringVals(theta): the ray (x0 - r sin(theta), y0 + r cos(theta)), r in rs
ringVals(vec, x0, y0, rs, j) ==
    Arr([i \in 1..Len(rs) |->
            interp(vec, x0 - rs[i].n * SinTheta(j), y0 + rs[i].n * CosTheta(j))])

\* the fields with a radius grid that ends one unit beyond rmax
ProfilesFields_wider_grid(x0, y0, rmin, rmax, flux, profs, profsQ, profsU, nrays, rs) ==
    [x0 |-> x0, y0 |-> y0, rmin |-> rmin, rmax |-> rmax,
     flux |-> flux, normfactor |-> QDiv(I(NORMFLUX), I(flux)),
     profiles |-> profs, profilesQ |-> profsQ, profilesU |-> profsU,
     nang |-> nrays, nthetas |-> nrays, nrs |-> Len(rs),
     rs |-> linspace0(rmax + 1, Len(rs)),
     dr |-> QSub(rs[Len(rs)], rs[Len(rs) - 1]),
     attrs |-> {"RingSize1", "RingSize1_med", "flux", "normfactor"}]

\* Profiles.__init__, lines 81-117: the fields set before the peaks are found
ProfilesFields(x0, y0, rmin, rmax, flux, profs, profsQ, profsU, nrays, rs) ==
    [x0 |-> x0, y0 |-> y0, rmin |-> rmin, rmax |-> rmax,
     flux |-> flux, normfactor |-> QDiv(I(NORMFLUX), I(flux)),
     profiles |-> profs, profilesQ |-> profsQ, profilesU |-> profsU,
     nang |-> nrays, nthetas |-> nrays, nrs |-> Len(rs), rs |-> rs,
     dr |-> QSub(rs[Len(rs)], rs[Len(rs) - 1]),
     attrs |-> {"RingSize1", "RingSize1_med", "flux", "normfactor"}]

\* lines 118-131: the peak of every ray and the diameters 2|pk|
ProfilesPeaks(self, pkv) ==
    [pks |-> Arr([a \in 1..Len(pkv) |-> pkv[a][1]]),
     pk_vals |-> Arr([a \in 1..Len(pkv) |-> pkv[a][2]]),
     diameters |-> Arr([a \in 1..Len(pkv) |-> QMul(I(2), QAbs(pkv[a][1]))])] @@ self

\* line 134: RingSize1 = (mean, std) of the diameters, std carried as std^2
ProfilesRingSize(self) ==
    [RingSize1 |-> [mean |-> QMean(self.diameters), var |-> QVar(self.diameters)]] @@ self

ProfilesRays(self) ==
    ProfilesRingSize(ProfilesPeaks(self,
        Arr([a \in 1..Len(self.profiles) |-> calc_pkrad_from_prof(self, self.profiles[a])])))

\* Profiles.__init__: the bundle built from the sampled rays
Profiles(image, x0, y0, profs, nrays, rmin, rmax, profsQ, profsU) ==
    ProfilesRays(ProfilesFields(x0, y0, rmin, rmax, VecSum(image.imvec), profs,
                                profsQ, profsU, nrays, linspace0(rmax, Len(profs[1]))))

\* the rays of one Stokes vector, one row per angle
ringProfs(vec, x0, y0, rs, nrays) ==
    Arr([j \in 1..nrays |-> ringVals(vec, x0, y0, rs, j)])

\* compute_ring_profile(im, x0, y0, nrays, nrs, rmin, rmax, pol_profs)
compute_ring_profile(image, x0, y0, nrays, nrs, rmin, rmax, pol_profs) ==
    IF Len(image.qvec) > 0 /\ Len(image.uvec) > 0 /\ pol_profs
    THEN Profiles(image, x0, y0,
                  ringProfs(image.imvec, x0, y0, linspace0(rmax, nrs), nrays),
                  nrays, rmin, rmax,
                  ringProfs(image.qvec, x0, y0, linspace0(rmax, nrs), nrays),
                  ringProfs(image.uvec, x0, y0, linspace0(rmax, nrs), nrays))
    ELSE Profiles(image, x0, y0,
                  ringProfs(image.imvec, x0, y0, linspace0(rmax, nrs), nrays),
                  nrays, rmin, rmax, <<>>, <<>>)

\* compute_ring_profile on arguments of its own: one ray or the rays at quarter
\* turns, and every grid of whole radii up to RMAX
RingProfileCalls ==
    {[f |-> "compute_ring_profile", image |-> image, x0 |-> x0, y0 |-> HalfPix,
      nrays |-> nrays, nrs |-> g[1], rmax |-> g[2], out |-> <<>>] :
        image \in RawImages, x0 \in RingCenters, nrays \in {1, NRAYS},
        g \in {h \in (2..NRS) \X (1..RMAX) : h[2] % (h[1] - 1) = 0}}

InitBundle ==
    /\ call \in RingProfileCalls
    /\ tie \in 0..MaxTie
    /\ PipelineIdle
    /\ batch = <<>>

RingProfileCall ==
    /\ call.f = "compute_ring_profile"
    /\ call.out = <<>>
    /\ call' = [call EXCEPT !.out =
                   compute_ring_profile(call.image, call.x0, call.y0, call.nrays,
                                        call.nrs, RMIN, call.rmax, TRUE)]
    /\ UNCHANGED <<tie, pipeVars>>

NextBundle ==
    \/ RingProfileCall

SpecBundle == InitBundle /\ [][NextBundle]_vars

---------------------------------------------------------------------------
(* Center search                                                           *)

\* lines 778-783: the score of a trial center from (mean, std) = RingSize1
objScore(mean, var) ==
    IF QLt(mean, RPRIOR_MIN) \/ QLt(RPRIOR_MAX, mean)
    THEN PInf
    ELSE QAbs(QDiv(var, QMul(mean, mean)))

objRecord(RingSize1) ==
    [mean |-> RingSize1.mean, var |-> RingSize1.var,
     J |-> objScore(RingSize1.mean, RingSize1.var)]

\* objFunc(pos): the dispersion of the per-ray diameters at a trial center, or
\* +inf outside the prior range.  J = |std/mean| is carried as its square
\* var/mean^2, which orders trial centers exactly as J does; mean and var are
\* kept beside it.
objFunc(image, x0, y0) ==
    objRecord(compute_ring_profile(image, x0, y0, NRAYS_SEARCH, NRS_SEARCH,
                                   RMIN, RMAX, FALSE).RingSize1)

\* the search window: (.5 -+ fov_search) * fov, with fovx = fovy = NPIX
fovmin == QMul(QSub(Q(1, 2), FOVP_SEARCH), I(NPIX))
fovmax == QMul(QAdd(Q(1, 2), FOVP_SEARCH), I(NPIX))

\* the n_search points per axis that scipy.optimize.brute evaluates
GridAxis ==
    Arr([i \in 1..NSEARCH |->
            QAdd(fovmin, QMul(Q(i - 1, NSEARCH - 1), QSub(fovmax, fovmin)))])

\* the grid in the order of Jout.ravel(): x outermost
GridPoints ==
    Arr([g \in 1..(NSEARCH * NSEARCH) |->
            [x |-> GridAxis[((g - 1) \div NSEARCH) + 1].n,
             y |-> GridAxis[((g - 1) % NSEARCH) + 1].n]])

\* np.argmin: the first NaN if there is one, else the first minimum
argmin(Jout) ==
    IF \E g \in 1..Len(Jout) : IsNaN(Jout[g])
    THEN CHOOSE g \in 1..Len(Jout) :
            IsNaN(Jout[g]) /\ \A h \in 1..Len(Jout) : IsNaN(Jout[h]) => g <= h
    ELSE CHOOSE g \in 1..Len(Jout) :
            /\ \A h \in 1..Len(Jout) : ~QLt(Jout[h], Jout[g])
            /\ \A h \in 1..Len(Jout) : Jout[h] = Jout[g] => g <= h

bruteBest(Jout, best) ==
    [Jout |-> Jout, pos |-> GridPoints[best], J |-> Jout[best].J]

bruteGrid(Jout) == bruteBest(Jout, argmin(Arr([g \in 1..Len(Jout) |-> Jout[g].J])))

\* scipy.optimize.brute before its finisher: objFunc on every grid point, and
\* the argmin of the values
brute(image) ==
    bruteGrid(Arr([g \in 1..Len(GridPoints) |->
                      objFunc(image, GridPoints[g].x, GridPoints[g].y)]))

\* the order in which fmin sorts its simplex: ascending, NaN last
SortsBefore(a, b) == (~IsNaN(a) /\ IsNaN(b)) \/ QLt(a, b)

\* positions the finisher can step to from p: its simplex varies one
\* coordinate at a time and fmin has no bounds, so every adjacent pixel
\* position of the frame, inside the search window or not
Neighbours(p) ==
    {[x |-> p.x + d[1], y |-> p.y + d[2]] :
        d \in {<<1, 0>>, <<-1, 0>>, <<0, 1>>, <<0, -1>>}} \cap [x : Pixels, y : Pixels]

InWindow(p) ==
    /\ QLe(fovmin, I(p.x)) /\ QLe(I(p.x), fovmax)
    /\ QLe(fovmin, I(p.y)) /\ QLe(I(p.y), fovmax)

---------------------------------------------------------------------------
(* Ring statistics and the per-image pipeline                              *)

\* the attributes calc_meanprof_and_stats sets on every bundle
StatAttrs ==
    {"meanprof", "pkloc", "pkrad", "meanpk", "in_level", "out_level", "lh", "rh",
     "lhloc", "rhloc", "RingSize2", "RingWidth", "RingAngle1", "RingAngle2",
     "RingContrast1", "RingContrast2", "RingAsym1", "RingFlux", "RingAsym2",
     "RingAsymPol", "impeak", "std_offsource", "mean_offsource", "dynamic_range"}

\* the attributes the report of FindProfileSingle reads, in the order written
ReportAttrs ==
    <<"RingSize1", "RingSize2", "RingAngle1", "RingAngle2", "RingWidth", "flux",
      "RingFlux", "RingAsym1", "RingAsym2", "in_level", "out_level", "meanpk",
      "RingContrast1", "RingContrast2", "dynamic_range", "normfactor",
      "RingSize1_med", "RingAnglePol", "RingAsymPol">>

\* lines 151-156: the mean profile and its peak
meanprofPeak(self, meanprof, pkloc) ==
    [meanprof |-> meanprof, pkloc |-> pkloc, pkrad |-> self.rs[pkloc],
     meanpk |-> meanprof[pkloc]]

\* np.argmin((self.rs - r)**2): the first of the radii nearest r, counted from 1
nearest_loc(rs, r) ==
    CHOOSE i \in 1..Len(rs) :
        \A j \in 1..Len(rs) :
            \/ QLt(QAbs(QSub(rs[i], r)), QAbs(QSub(rs[j], r)))
            \/ (QAbs(QSub(rs[i], r)) = QAbs(QSub(rs[j], r)) /\ i <= j)

\* lines 165-170: in_level = np.mean(meanprof[0:inner_loc]) and
\* out_level = np.mean(meanprof[outer_loc:])
meanprofLevels(self, st) ==
    [in_level |-> QMean(SubSeq(st.meanprof, 1, nearest_loc(self.rs, I(self.rmin)) - 1)),
     out_level |-> QMean(SubSeq(st.meanprof,
                                nearest_loc(self.rs, I(self.rmax - self.rmin)),
                                Len(st.meanprof)))] @@ st

\* line 231: RingContrast2 = meanpk / in_level
meanprofContrast(st) ==
    [RingContrast2 |-> QDiv(st.meanpk, st.in_level)] @@ st

\* lines 174-175 and 191-195: the arrays handed to calc_width, meanprof_zeroed
\* for the mean profile and rprof = self.profiles[i] for the i-th ray
meanprofWidthArgs(self, st) ==
    [meanprof_zeroed |-> Arr([r \in 1..Len(st.meanprof) |->
                                QSub(st.meanprof[r], st.out_level)]),
     rprof |-> self.profiles] @@ st

meanprofStats(self, meanprof) ==
    meanprofContrast(meanprofWidthArgs(self, meanprofLevels(self,
        meanprofPeak(self, meanprof, ArgsortLast(meanprof)))))

\* calc_meanprof_and_stats: the mean profile and its peak; the attributes set.
\* RingAnglePol is set only inside the polarization branch (lines 289-306).
calc_meanprof_and_stats(self, image) ==
    meanprofStats(self,
        Arr([r \in 1..self.nrs |->
                QMean(Arr([a \in 1..self.nang |-> self.profiles[a][r]]))]))
    @@ [attrs |-> self.attrs \cup StatAttrs
                    \cup (IF Len(image.qvec) > 0 /\ Len(image.uvec) > 0
                          THEN {"RingAnglePol"} ELSE {})]
    @@ self

\* The Image objects of calc_meanprof_and_stats: env binds each name to an
\* array, arr holds the pixel arrays; self.im is the image of the bundle.
stats_heap(image) == [env |-> [n \in {"self.im"} |-> 1], arr |-> <<image.imvec>>]

\* dst = src.copy(): a new Image with a pixel array of its own
Image_copy(h, src, dst) ==
    [env |-> (dst :> (Len(h.arr) + 1)) @@ h.env,
     arr |-> Append(h.arr, h.arr[h.env[src]])]

\* name.imvec *= c, in place
imvec_imul(h, name, c) ==
    [h EXCEPT !.arr[h.env[name]] = [i \in 1..Len(@) |-> @[i] * c]]

\* the three names bound to self.im itself, without a copy
stats_copies_shared(h) ==
    [h EXCEPT !.env = [n \in {"mask_inner", "mask_outer", "immask"} |-> h.env["self.im"]]
                        @@ h.env]

\* lines 237-239
stats_copies(h) ==
    Image_copy(Image_copy(Image_copy(h, "self.im", "mask_inner"),
                          "self.im", "mask_outer"), "self.im", "immask")

\* lines 248-249; add_gauss and mask (lines 250-253) return new Images
stats_masks(h) == imvec_imul(imvec_imul(stats_copies(h), "mask_inner", 0), "mask_outer", 0)

\* lines 336-337 and 343
dynrange_mask(h) ==
    imvec_imul(Image_copy(Image_copy(h, "self.im", "mask"), "self.im", "immask"), "mask", 0)

\* self.im once calc_meanprof_and_stats has returned
stats_image(image) ==
    [image EXCEPT !.imvec =
        dynrange_mask(stats_masks(stats_heap(image))).arr[
            dynrange_mask(stats_masks(stats_heap(image))).env["self.im"]]]

Fits == <<".", "f", "i", "t", "s">>
H5 == <<".", "h", "5">>
Txt == <<".", "t", "x", "t">>

\* basename[:-5]
DropLast5(s) == SubSeq(s, 1, Len(s) - 5)

\* os.path.splitext(basename)[0]: up to the last dot, unless it leads the name
SplitExtRoot(s) ==
    LET dots == {i \in 2..Len(s) : s[i] = "."}
    IN  IF dots = {} THEN s
        ELSE SubSeq(s, 1, (CHOOSE i \in dots : \A j \in dots : j <= i) - 1)

\* the report path tested for the rerun=False skip (under postprocdir/dirname)
SkipTxtName(c) == DropLast5(c.basename) \o c.tag \o Txt

\* the report path written with save_files=True
SaveTxtName(c) == SplitExtRoot(c.basename) \o c.tag \o Txt

\* arguments of one FindProfileSingle call (blur = 0, center = False)
Calls ==
    {[basename |-> <<"m">> \o ext, tag |-> tag, save_files |-> sf, rerun |-> rr,
      return_pp |-> rp, raw |-> raw] :
        ext \in {Fits}, tag \in {<<>>}, sf \in BOOLEAN, rr \in BOOLEAN,
        rp \in BOOLEAN, raw \in RawImages}

Init ==
    /\ call = <<>>
    /\ tie \in 0..MaxTie
    /\ cfg \in Calls
    /\ pc = "start"
    /\ im = <<>>
    /\ im_search = <<>>
    /\ seed = <<>>
    /\ res = <<>>
    /\ pp = <<>>
    /\ files \in {{}} \cup (IF cfg.rerun THEN {} ELSE {{SkipTxtName(cfg)}})
    /\ ret = "unset"
    /\ steps = <<>>
    /\ batch = <<>>

\* lines 810-814: the skip of an image already processed
Start ==
    /\ pc = "start"
    /\ IF cfg.rerun = FALSE /\ SkipTxtName(cfg) \in files
       THEN pc' = "done" /\ ret' = "-1"
       ELSE pc' = "regrid" /\ ret' = ret
    /\ UNCHANGED <<call, tie, cfg, im, im_search, seed, res, pp, files, steps, batch>>

\* lines 819-832: load the image; regrid it twice, once for the search
Regrid ==
    /\ pc = "regrid"
    /\ im_search' = regrid_image(cfg.raw)
    /\ im' = regrid_image(cfg.raw)
    /\ pc' = "threshold"
    /\ steps' = Append(steps, "regrid")
    /\ UNCHANGED <<call, tie, cfg, seed, res, pp, files, ret, batch>>

\* line 846: zero the search copy below thresh_search of its maximum
Threshold ==
    /\ pc = "threshold"
    /\ im_search' = [im_search EXCEPT !.imvec = threshold(im_search.imvec, THRESH)]
    /\ pc' = "findCenter"
    /\ steps' = Append(steps, "threshold")
    /\ UNCHANGED <<call, tie, cfg, im, seed, res, pp, files, ret, batch>>

\* lines 785-794, scipy.optimize.brute: evaluate objFunc on the grid and take
\* the argmin as the starting point of the finisher
BruteGrid ==
    /\ pc = "findCenter"
    /\ seed' = brute(im_search)
    /\ res' = [x |-> seed'.pos.x, y |-> seed'.pos.y, J |-> seed'.J, moves |-> 0]
    /\ pc' = "fmin"
    /\ UNCHANGED <<call, tie, cfg, im, im_search, pp, files, ret, steps, batch>>

\* the finisher scipy.optimize.fmin, seeded at the best grid point: the best
\* vertex of the simplex moves only to positions that sort before it
FminMove ==
    /\ pc = "fmin"
    /\ res.moves < MaxPolish
    /\ \E q \in Neighbours(res) :
          /\ res' = [x |-> q.x, y |-> q.y, J |-> objFunc(im_search, q.x, q.y).J,
                      moves |-> res.moves + 1]
          /\ SortsBefore(res'.J, res.J)
    /\ UNCHANGED <<call, tie, cfg, pc, im, im_search, seed, pp, files, ret, steps, batch>>

\* line 796: brute returns the finisher's best vertex, whatever its objective
FminReturn ==
    /\ pc = "fmin"
    /\ pc' = "compute_ring_profile"
    /\ steps' = Append(steps, "findCenter")
    /\ UNCHANGED <<call, tie, cfg, im, im_search, seed, res, pp, files, ret, batch>>

\* mutant: the thresholded search copy is resampled instead
FinalImageSearch == im_search

\* the image resampled for the final profile (line 856)
FinalImage == im

\* lines 856-858: the full resolution profile at the center found
ComputeProfile ==
    /\ pc = "compute_ring_profile"
    /\ pp' = compute_ring_profile(FinalImage, res.x, res.y, NRAYS, NRS, RMIN, RMAX, TRUE)
    /\ pc' = "calc_meanprof_and_stats"
    /\ steps' = Append(steps, "compute_ring_profile")
    /\ UNCHANGED <<call, tie, cfg, im, im_search, seed, res, files, ret, batch>>

\* line 859
CalcStats ==
    /\ pc = "calc_meanprof_and_stats"
    /\ pp' = calc_meanprof_and_stats(pp, im)
    /\ im' = stats_image(im)
    /\ pc' = IF cfg.save_files THEN "save" ELSE "return"
    /\ steps' = Append(steps, "calc_meanprof_and_stats")
    /\ UNCHANGED <<call, tie, cfg, im_search, seed, res, files, ret, batch>>

\* lines 863-920: the report.  The file is opened before the attributes are
\* read, so it exists even when reading an attribute that was never set raises
\* AttributeError part way through.
SaveFiles ==
    /\ pc = "save"
    /\ files' = files \cup {SaveTxtName(cfg)}
    /\ IF \A i \in 1..Len(ReportAttrs) : ReportAttrs[i] \in pp.attrs
       THEN pc' = "return" /\ ret' = ret
       ELSE pc' = "raised" /\ ret' = "AttributeError"
    /\ steps' = Append(steps, "save")
    /\ UNCHANGED <<call, tie, cfg, im, im_search, seed, res, pp, batch>>

\* lines 950-954
Return ==
    /\ pc = "return"
    /\ ret' = IF cfg.return_pp THEN "pp" ELSE "None"
    /\ pc' = "done"
    /\ UNCHANGED <<call, tie, cfg, im, im_search, seed, res, pp, files, steps, batch>>

Next ==
    \/ Start
    \/ Regrid
    \/ Threshold
    \/ BruteGrid
    \/ FminMove
    \/ FminReturn
    \/ ComputeProfile
    \/ CalcStats
    \/ SaveFiles
    \/ Return

Spec == Init /\ [][Next]_vars

---------------------------------------------------------------------------
(* FindProfiles: the batch over the images of a folder                     *)

MaxImages == 2      \* image files in the folder
MaxProcs == 2       \* worker processes of the pool

\* file names as sequences of code points
ImageNames == {<<1>>, <<1, 2>>, <<2>>}

\* the order of str_ arrays under np.sort: lexicographic by code point
RECURSIVE LexLt(_, _)
LexLt(a, b) ==
    IF a = <<>> THEN b # <<>>
    ELSE IF b = <<>> THEN FALSE
    ELSE IF Head(a) # Head(b) THEN Head(a) < Head(b)
    ELSE LexLt(Tail(a), Tail(b))

Range(l) == {l[i] : i \in 1..Len(l)}

\* glob.glob(foldername + '/*.fits'): the files of the folder, in any order
GlobLists ==
    {l \in UNION {[1..n -> ImageNames] : n \in 0..MaxImages} :
        \A i, j \in 1..Len(l) : i # j => l[i] # l[j]}

\* mutant: the list is left in the order glob returned it
np_sort_skipped(imlist) == imlist

\* np.sort(imlist)
np_sort(imlist) ==
    CHOOSE l \in [1..Len(imlist) -> Range(imlist)] :
        \A i, j \in 1..Len(l) : i < j => LexLt(l[i], l[j])

\* what one FindProfileSingle call hands back, from the steps above: -1 when
\* the image is skipped, AttributeError out of the report of an image without
\* polarization, and else pp or None as return_pp says
FindProfileSingle(c, exists, hasPol) ==
    IF c.rerun = FALSE /\ exists THEN "-1"
    ELSE IF c.save_files /\ ~hasPol THEN "AttributeError"
    ELSE IF c.return_pp THEN "pp"
    ELSE "None"

\* the per-image pipeline ends as FindProfileSingle says
FindProfileSingleAgrees ==
    pc \in {"done", "raised"} =>
        ret = FindProfileSingle(cfg, steps = <<>>,
                                Len(cfg.raw.qvec) > 0 /\ Len(cfg.raw.uvec) > 0)

Batches ==
    {[glob |-> l, save_files |-> sf, rerun |-> rr, return_pp |-> rp,
      exists |-> ex, hasPol |-> hp, processes |-> n, at |-> "FindProfiles",
      imlist |-> <<>>, status |-> <<>>, out |-> <<>>, finished |-> <<>>,
      pplist |-> <<>>] :
        l \in GlobLists, sf \in BOOLEAN, rr \in BOOLEAN, rp \in BOOLEAN,
        ex \in [ImageNames -> BOOLEAN], hp \in [ImageNames -> BOOLEAN],
        n \in 1..MaxProcs}

soloVars == <<cfg, pc, im, im_search, seed, res, pp, files, ret, steps>>

InitBatch ==
    /\ call = <<>>
    /\ tie = 0
    /\ PipelineIdle
    /\ batch \in {b \in Batches :
                     \A m \in ImageNames \ Range(b.glob) : ~b.exists[m] /\ ~b.hasPol[m]}

\* lines 971-991: no image files, or the sorted list of arguments
BatchStart ==
    /\ batch.at = "FindProfiles"
    /\ IF Len(batch.glob) = 0
       THEN batch' = [batch EXCEPT !.at = "returned"]
       ELSE batch' = [batch EXCEPT
                         !.at = "run_loop",
                         !.imlist = np_sort(batch.glob),
                         !.status = [i \in 1..Len(batch.glob) |-> "pending"],
                         !.out = [i \in 1..Len(batch.glob) |-> "unset"]]
    /\ UNCHANGED <<call, tie, soloVars>>

\* run_loop: a free worker takes an argument list that is still pending
WorkerStart ==
    /\ batch.at = "run_loop"
    /\ Cardinality({i \in 1..Len(batch.status) : batch.status[i] = "running"})
          < batch.processes
    /\ \E i \in 1..Len(batch.status) :
          /\ batch.status[i] = "pending"
          /\ batch' = [batch EXCEPT !.status[i] = "running"]
    /\ UNCHANGED <<call, tie, soloVars>>

\* run_loop: a worker finishes; its result, or the failure it raised, is
\* recorded at the position of its argument list
WorkerFinish ==
    /\ batch.at = "run_loop"
    /\ \E i \in 1..Len(batch.status) :
          /\ batch.status[i] = "running"
          /\ batch' = [batch EXCEPT
                          !.status[i] = "done",
                          !.finished = Append(@, i),
                          !.out[i] =
                              [of |-> batch.imlist[i],
                               val |-> FindProfileSingle(batch,
                                           batch.exists[batch.imlist[i]],
                                           batch.hasPol[batch.imlist[i]])]]
    /\ UNCHANGED <<call, tie, soloVars>>

\* lines 994-995: run_loop returns once every image is done
BatchReturn ==
    /\ batch.at = "run_loop"
    /\ \A i \in 1..Len(batch.status) : batch.status[i] = "done"
    /\ batch' = [batch EXCEPT !.at = "returned", !.pplist = batch.out]
    /\ UNCHANGED <<call, tie, soloVars>>

NextBatch == BatchStart \/ WorkerStart \/ WorkerFinish \/ BatchReturn

SpecBatch == InitBatch /\ [][NextBatch]_vars

---------------------------------------------------------------------------
(* Sections of calc_meanprof_and_stats, each applied to arguments of its own *)

QuarterTurn == 2    \* angle units in a quarter turn (pi/2)

Turn == 4 * QuarterTurn     \* 2 pi

\* np.mod(-np.arctan2(y - y0_c, x - x0_c) + np.pi/2., 2*np.pi), for arctan2 = a
position_angle(a) == (QuarterTurn - a) % Turn

\* anglemask(x, y) for a pixel at position angle ang: False when
\* np.mod(np.abs(ang - cangle), 2*np.pi) > 0.5*np.pi, else True
anglemask(ang, cangle) == ~((Abs(ang - cangle) % Turn) > QuarterTurn)

\* arctan2 takes values in (-pi, pi]; circmean returns cangle in [0, 2 pi)
AngleCalls ==
    {[f |-> "anglemask", a |-> a, cangle |-> c, out |-> <<>>] :
        a \in (1 - 2 * QuarterTurn)..(2 * QuarterTurn), c \in 0..(Turn - 1)}

WidthNrs == 3       \* radial points of the profiles given to calc_width
MaxRoots == 2       \* roots of the half-maximum spline
MaxWidth == 2       \* ray widths and mean-profile width
MaxRays == 2        \* rays whose widths are aggregated

\* the loop of calc_width over the sorted roots, from the k-th on
RECURSIVE width_loop(_, _, _, _, _)
width_loop(roots, k, pkrad, lh, rh) ==
    IF k > Len(roots) THEN <<lh, rh>>
    ELSE IF QLt(roots[k], pkrad) THEN width_loop(roots, k + 1, pkrad, roots[k], rh)
    ELSE <<lh, roots[k]>>

\* calc_width(prof), with roots = np.sort(spline.roots()) of the spline through
\* (rs, prof - 0.5*maxval)
calc_width(self, prof, roots) ==
    IF Len(roots) = 0 THEN <<self.rs[1], self.rs[self.nrs]>>
    ELSE width_loop(roots, 1, calc_pkrad_from_prof(self, prof)[1],
                    self.rs[1], self.rs[self.nrs])

\* the roots: ascending sequences of at most MaxRoots half-integer radii within
\* the grid
WidthCalls ==
    {[f |-> "calc_width", self |-> PeakSelf(WidthNrs),
      prof |-> [i \in 1..WidthNrs |-> I(p[i])], roots |-> r, out |-> <<>>] :
        p \in [1..WidthNrs -> 0..MaxVal],
        r \in {r \in UNION {[1..n -> {Q(h, 2) : h \in 0..(2 * (WidthNrs - 1))}] :
                                n \in 0..MaxRoots} :
                  \A i, j \in 1..Len(r) : i < j => QLt(r[i], r[j])}}

\* lines 189-199: the widths kept for RingWidth, width = rh - lh of the ray
RECURSIVE ringwidths(_, _)
ringwidths(widths, meanprof_width) ==
    IF widths = <<>> THEN <<>>
    ELSE IF QLe(Head(widths), I(0))
            \/ QLe(QMul(I(2), meanprof_width), Head(widths))
         THEN ringwidths(Tail(widths), meanprof_width)
         ELSE <<Head(widths)>> \o ringwidths(Tail(widths), meanprof_width)

RingWidthCalls ==
    {[f |-> "RingWidth", widths |-> [i \in 1..Len(w) |-> I(w[i])],
      meanprof_width |-> I(mw), out |-> <<>>] :
        w \in UNION {[1..n -> (-1)..(2 * MaxWidth)] : n \in 1..MaxRays},
        mw \in 0..MaxWidth}

MaskPix == 3        \* pixels of the frames given to the mask computations
MaskVal == 1        \* largest pixel brightness of those frames

\* vec[keep]: boolean indexing
RECURSIVE Compress(_, _)
Compress(vec, keep) ==
    IF vec = <<>> THEN <<>>
    ELSE (IF Head(keep) THEN <<Head(vec)>> ELSE <<>>) \o Compress(Tail(vec), Tail(keep))

\* np.logical_xor(mask_inner.imvec.astype(bool), mask_outer.imvec.astype(bool))
maskvec_annulus(inner, outer) == [i \in 1..Len(inner) |-> inner[i] # outer[i]]

\* maskvec_ang: anglemask of every pixel; the arctan2 term of the i-th pixel of
\* a frame is (3 - i) QuarterTurn, in units of pi / (2 QuarterTurn)
maskvec_ang(n, cangle) ==
    [i \in 1..n |-> anglemask(position_angle((3 - i) * QuarterTurn), cangle)]

\* maskvec_annulus * maskvec_ang
maskvec_brighthalf(annulus, ang) == [i \in 1..Len(annulus) |-> annulus[i] /\ ang[i]]

\* the halves without the annulus, as in the lines left commented out
maskvec_dimhalf_whole_frame(annulus, ang) == [i \in 1..Len(annulus) |-> ~ang[i]]

\* maskvec_annulus * ~maskvec_ang
maskvec_dimhalf(annulus, ang) == [i \in 1..Len(annulus) |-> annulus[i] /\ ~ang[i]]

HalfCalls ==
    {[f |-> "halves", imvec |-> v, inner |-> mi, outer |-> mo, cangle |-> c, out |-> <<>>] :
        v \in [1..MaskPix -> 0..MaskVal], mi \in [1..MaskPix -> BOOLEAN],
        mo \in [1..MaskPix -> BOOLEAN], c \in 0..(Turn - 1)}

\* immask.imvec < EP*self.flux for pixels that are whole numbers and a flux
\* below 1/EP = 1e16: v*1e16 < flux exactly when v < 0, or v = 0 < flux
below_floor(v, flux) == v < 0 \/ (v = 0 /\ 0 < flux)

\* maskvec = mask.imvec.astype(bool) + (immask.imvec < EP*self.flux)
maskvec(imvec, disk, flux) ==
    [i \in 1..Len(imvec) |-> disk[i] \/ below_floor(imvec[i], flux)]

\* offsource_vec = immask.imvec[~(maskvec)]
offsource_vec(imvec, disk, flux) ==
    Compress([i \in 1..Len(imvec) |-> I(imvec[i])],
             [i \in 1..Len(imvec) |-> ~maskvec(imvec, disk, flux)[i]])

\* np.std(v) + EP, kept as the pair of np.std(v)**2 and the floor: nan when
\* np.std(v) is nan, otherwise the number sqrt(var) + EP >= EP
plus_EP(var) == IF IsNum(var) THEN [k |-> "num", var |-> var, floor |-> "EP"] ELSE NaN

\* lines 346-352; impeak / std_offsource is kept as the pair, nan when the
\* divisor is nan
dynamic_range(imvec, disk, flux) ==
    [offsource_vec |-> offsource_vec(imvec, disk, flux),
     impeak |-> VecMax(imvec),
     std_offsource |-> plus_EP(QVar(offsource_vec(imvec, disk, flux))),
     dynamic_range |->
         IF IsNum(plus_EP(QVar(offsource_vec(imvec, disk, flux))))
         THEN [k |-> "num", impeak |-> VecMax(imvec),
               std |-> plus_EP(QVar(offsource_vec(imvec, disk, flux)))]
         ELSE NaN]

DynamicRangeCalls ==
    {[f |-> "dynamic_range", imvec |-> v, disk |-> m, out |-> <<>>] :
        v \in [1..MaskPix -> 0..MaskVal], m \in [1..MaskPix -> BOOLEAN]}

BandPeak == 7       \* peak brightness of the mean profiles given to the band computation

\* UnivariateSpline(rs, y, s=0) on the grid rs = 0, 1, ..., 5: the cubic spline
\* through the six points with knots at rs[2] and rs[3].  Its value half-way
\* between two grid points is a fixed combination of the six values; row k
\* holds 240 times the weights at rs[k-1] + 1/2.
SplineHalf ==
    << << 71, 242, -103,   37,  -8,   1>>,
       <<-11, 118,  163,  -37,   8,  -1>>,
       <<  3, -24,  141,  141, -24,   3>>,
       << -1,   8,  -37,  163, 118, -11>>,
       <<  1,  -8,   37, -103, 242,  71>> >>

\* the spline at radius p/2
spline_at(y, p) ==
    IF p % 2 = 0 THEN y[(p \div 2) + 1]
    ELSE QSum(Arr([i \in 1..Len(y) |->
                     QMul(Q(SplineHalf[(p + 1) \div 2][i], 240), y[i])]))

\* row p+1 holds 360 times the weights of the slope of the spline at radius p/2
SplineSlope ==
    << <<-692, 1216, -764,  296,   -64,    8>>,
       <<-341,  298,   73,  -37,     8,   -1>>,
       <<-104, -248,  472, -148,    32,   -4>>,
       <<  19, -422,  433,  -37,     8,   -1>>,
       <<  28, -224,  -44,  296,   -64,    8>>,
       <<  -5,   40, -455,  455,   -40,    5>>,
       <<  -8,   64, -296,   44,   224,  -28>>,
       <<   1,   -8,   37, -433,   422,  -19>>,
       <<   4,  -32,  148, -472,   248,  104>>,
       <<   1,   -8,   37,  -73,  -298,  341>>,
       <<  -8,   64, -296,  764, -1216,  692>> >>

\* the sign of the spline just above (side = 1) or just below (side = -1)
\* radius p/2
sign_near(y, p, side) ==
    IF Sign(spline_at(y, p)) # 0 THEN Sign(spline_at(y, p))
    ELSE side * Sign(QSum(Arr([i \in 1..Len(y) |->
                                 QMul(Q(SplineSlope[p + 1][i], 360), y[i])])))

\* spline.roots(), ascending, from radius q/4 on: the grid and half-grid points
\* where the spline is 0, and one root (placed at the middle) in every
\* half-cell over which the spline changes sign.  Roots inside a half-cell
\* at whose two ends the spline has the same sign are not located.
RECURSIVE spline_roots(_, _)
spline_roots(y, q) ==
    IF q > 4 * (Len(y) - 1) THEN <<>>
    ELSE (IF q % 2 = 0
          THEN (IF Sign(spline_at(y, q \div 2)) = 0 THEN <<Q(q, 4)>> ELSE <<>>)
          ELSE (IF sign_near(y, (q - 1) \div 2, 1) * sign_near(y, (q + 1) \div 2, -1) < 0
                THEN <<Q(q, 4)>> ELSE <<>>))
         \o spline_roots(y, q + 1)

\* line 356: the values handed to the spline, prof - 0.5*maxval
spline_data(prof, maxval) ==
    Arr([i \in 1..Len(prof) |-> QSub(prof[i], QMul(Q(1, 2), maxval))])

\* calc_width(prof) with the roots of the spline through prof - 0.5*maxval
calc_width_spline(self, prof) ==
    calc_width(self, prof,
               spline_roots(spline_data(prof, calc_pkrad_from_prof(self, prof)[2]), 0))

\* lines 175-182: lh, rh and the radius indices nearest to them
meanprofBand(self, st) ==
    [lh |-> calc_width_spline(self, st.meanprof_zeroed)[1],
     rh |-> calc_width_spline(self, st.meanprof_zeroed)[2],
     lhloc |-> nearest_loc(self.rs, calc_width_spline(self, st.meanprof_zeroed)[1]),
     rhloc |-> nearest_loc(self.rs, calc_width_spline(self, st.meanprof_zeroed)[2])] @@ st

\* line 228: RingContrast1 = np.max(profiles[:, lhloc:rhloc+1]) / in_level
meanprofContrast1(self, st) ==
    [RingContrast1 |->
        QDiv(MaxOf(Arr([c \in 1..(st.rhloc - st.lhloc + 1) |->
                 MaxOf(Arr([a \in 1..self.nang |-> self.profiles[a][st.lhloc + c - 1]]))])),
             st.in_level)] @@ st

\* bundles of one ray on the grid of the spline table
BandCalls ==
    {[f |-> "band",
      self |-> [rmin |-> RMIN, rmax |-> Len(SplineHalf), nang |-> 1,
                profiles |-> <<[i \in 1..Len(p) |-> I(p[i])]>>]
               @@ PeakSelf(Len(SplineHalf) + 1),
      out |-> <<>>] :
        p \in [1..(Len(SplineHalf) + 1) -> {0, BandPeak - 1, BandPeak}]}

InitStats ==
    /\ call \in AngleCalls \cup WidthCalls \cup RingWidthCalls \cup HalfCalls
                  \cup DynamicRangeCalls \cup BandCalls
    /\ tie \in (IF call.f = "calc_width" THEN 0..MaxTie ELSE {0})
    /\ PipelineIdle
    /\ batch = <<>>

AnglemaskCall ==
    /\ call.f = "anglemask"
    /\ call.out = <<>>
    /\ call' = [call EXCEPT !.out =
                   [ang |-> position_angle(call.a),
                    mask |-> anglemask(position_angle(call.a), call.cangle)]]
    /\ UNCHANGED <<tie, pipeVars>>

CalcWidthCall ==
    /\ call.f = "calc_width"
    /\ call.out = <<>>
    /\ call' = [call EXCEPT !.out =
                   [pkrad |-> calc_pkrad_from_prof(call.self, call.prof)[1],
                    lh |-> calc_width(call.self, call.prof, call.roots)[1],
                    rh |-> calc_width(call.self, call.prof, call.roots)[2]]]
    /\ UNCHANGED <<tie, pipeVars>>

\* line 201: RingWidth = (np.mean(ringwidths), np.std(ringwidths))
RingWidthCall ==
    /\ call.f = "RingWidth"
    /\ call.out = <<>>
    /\ call' = [call EXCEPT !.out =
                   [ringwidths |-> ringwidths(call.widths, call.meanprof_width),
                    mean |-> QMean(ringwidths(call.widths, call.meanprof_width)),
                    var |-> QVar(ringwidths(call.widths, call.meanprof_width))]]
    /\ UNCHANGED <<tie, pipeVars>>

\* lines 255-283: the annulus, its bright and dim halves and their fluxes
HalvesCall ==
    /\ call.f = "halves"
    /\ call.out = <<>>
    /\ call' = [call EXCEPT !.out =
          [annulus |-> maskvec_annulus(call.inner, call.outer),
           bright |-> maskvec_brighthalf(maskvec_annulus(call.inner, call.outer),
                                         maskvec_ang(Len(call.imvec), call.cangle)),
           dim |-> maskvec_dimhalf(maskvec_annulus(call.inner, call.outer),
                                   maskvec_ang(Len(call.imvec), call.cangle)),
           brightflux |-> VecSum(Compress(call.imvec,
                              maskvec_brighthalf(maskvec_annulus(call.inner, call.outer),
                                                 maskvec_ang(Len(call.imvec), call.cangle)))),
           dimflux |-> VecSum(Compress(call.imvec,
                              maskvec_dimhalf(maskvec_annulus(call.inner, call.outer),
                                              maskvec_ang(Len(call.imvec), call.cangle))))]]
    /\ UNCHANGED <<tie, pipeVars>>

\* lines 346-352, self.flux = im.total_flux()
DynamicRangeCall ==
    /\ call.f = "dynamic_range"
    /\ call.out = <<>>
    /\ call' = [call EXCEPT !.out = dynamic_range(call.imvec, call.disk, VecSum(call.imvec))]
    /\ UNCHANGED <<tie, pipeVars>>

\* lines 151-182 and 228-231
BandCall ==
    /\ call.f = "band"
    /\ call.out = <<>>
    /\ call' = [call EXCEPT !.out =
          meanprofContrast1(call.self, meanprofBand(call.self,
              meanprofStats(call.self,
                  Arr([r \in 1..call.self.nrs |->
                         QMean(Arr([a \in 1..call.self.nang |->
                                      call.self.profiles[a][r]]))]))))]
    /\ UNCHANGED <<tie, pipeVars>>

NextStats ==
    \/ AnglemaskCall
    \/ CalcWidthCall
    \/ RingWidthCall
    \/ HalvesCall
    \/ DynamicRangeCall
    \/ BandCall

SpecStats == InitStats /\ [][NextStats]_vars

---------------------------------------------------------------------------
(* FindProfileSingle run twice on the same image                            *)

\* first calls with save_files=True, for both extensions, with and without a tag
RerunCalls ==
    {[basename |-> <<"m">> \o ext, tag |-> tag, save_files |-> TRUE, rerun |-> rr,
      return_pp |-> TRUE, raw |-> raw] :
        ext \in {Fits, H5}, tag \in {<<>>, <<"_", "a">>}, rr \in BOOLEAN, raw \in RawImages}

InitRerun ==
    /\ call = <<>>
    /\ tie = 0
    /\ cfg \in RerunCalls
    /\ pc = "start"
    /\ im = <<>>
    /\ im_search = <<>>
    /\ seed = <<>>
    /\ res = <<>>
    /\ pp = <<>>
    /\ files = {}
    /\ ret = "unset"
    /\ steps = <<>>
    /\ batch = <<>>

\* the second call, on the same image with the same postprocdir and tag; the
\* files written by the first call are still there
Again ==
    /\ pc \in {"done", "raised"}
    /\ "again" \notin Range(steps)
    /\ \E rr \in BOOLEAN : cfg' = [cfg EXCEPT !.rerun = rr]
    /\ pc' = "start"
    /\ ret' = "unset"
    /\ steps' = Append(steps, "again")
    /\ im' = <<>>
    /\ im_search' = <<>>
    /\ seed' = <<>>
    /\ res' = <<>>
    /\ pp' = <<>>
    /\ UNCHANGED <<call, tie, files, batch>>

NextRerun ==
    \/ Next
    \/ Again

SpecRerun == InitRerun /\ [][NextRerun]_vars

---------------------------------------------------------------------------
(* Properties                                                              *)

\* C3: when the located maximum index is 0 or the last index, the peak
\* extractor returns the grid radius rs[index] and the raw profile value at
\* that index, unrefined, and the radius lies in [0, rmax].
C3_BoundaryNotRefined ==
    PeakDone /\ call.out.pkpos \in {1, call.self.nrs} =>
        /\ call.out.pk = call.self.rs[call.out.pkpos]
        /\ call.out.vpk = call.prof[call.out.pkpos]
        /\ QLe(I(0), call.out.pk)
        /\ QLe(call.out.pk, call.self.rs[call.self.nrs])

\* C3 witness: a profile rising to its last sample has been extracted
C3_Witness ==
    /\ PeakDone
    /\ call.out.pkpos = call.self.nrs
    /\ QLt(I(0), call.prof[call.self.nrs - 1])
    /\ QLt(call.prof[call.self.nrs - 1], call.prof[call.self.nrs])

\* C4: for an interior located maximum the refined peak radius is a defined
\* number strictly between the two flanking grid radii, ties included.
C4_InteriorStrictlyBetween ==
    PeakDone /\ call.out.pkpos > 1 /\ call.out.pkpos < call.self.nrs =>
        /\ IsNum(call.out.pk)
        /\ QLt(call.self.rs[call.out.pkpos - 1], call.out.pk)
        /\ QLt(call.out.pk, call.self.rs[call.out.pkpos + 1])

\* C5 as stated: among tied maxima the first occurrence is the located maximum
C5_FirstOccurrenceWins == PeakDone => call.out.pkpos = FirstOcc(call.prof)

\* C5 amended: the located maximum is the index np.argsort places last: an
\* index where the profile attains its maximum, the last occurrence under a
\* stable order, and the first occurrence when the maximum is unique.
C5_ArgsortLastWins ==
    PeakDone =>
        /\ call.prof[call.out.pkpos] = MaxOf(call.prof)
        /\ (tie = 0 => call.out.pkpos = LastOcc(call.prof))
        /\ (Cardinality(Tied(call.prof)) = 1 => call.out.pkpos = FirstOcc(call.prof))

\* C5 witness: a profile with a repeated maximum whose located index is not
\* the first occurrence
C5_Witness ==
    /\ PeakDone
    /\ Cardinality(Tied(call.prof)) >= 2
    /\ call.out.pkpos # FirstOcc(call.prof)

\* C6: on three samples of the parabola a r^2 + b r + c, a < 0, taken at
\* r_max - dr, r_max, r_max + dr, quad_interp_radius returns the vertex
\* (-b/(2a), c - b^2/(4a)).
C6_ParabolaVertex ==
    QuadDone =>
        /\ call.out.rpk = Q(-call.b, 2 * call.a)
        /\ call.out.vpk = QSub(I(call.c), Q(call.b * call.b, 4 * call.a))

\* C6 witness: the vertex is off the sample grid and the middle sample is not
\* the largest of the three
C6_Witness ==
    /\ QuadDone
    /\ call.out.rpk.d # 1
    /\ QLt(call.val_list[2], call.val_list[1])


\* C1: when the objective is +infinity at every point of the Center Search
\* grid, findCenter surfaces an explicit NoValidCenter failure and returns no
\* center to its caller.
C1_NoValidCenterSurfaced ==
    (/\ pc \notin {"start", "regrid", "threshold", "findCenter", "fmin"}
     /\ seed # <<>>
     /\ \A g \in 1..Len(seed.Jout) : seed.Jout[g].J = PInf)
        => ret = "NoValidCenter" /\ pp = <<>>

\* C2: at every trial center the objective is +infinity exactly when the mean
\* diameter is below rmin_search or above rmax_search, and otherwise it is a
\* finite non-negative number.
C2_ObjectiveInfOrFinite ==
    seed # <<>> =>
        \A g \in 1..Len(seed.Jout) :
            /\ seed.Jout[g].J = PInf <=>
                  (QLt(seed.Jout[g].mean, RPRIOR_MIN) \/ QLt(RPRIOR_MAX, seed.Jout[g].mean))
            /\ seed.Jout[g].J # PInf => IsNum(seed.Jout[g].J) /\ seed.Jout[g].J.n >= 0

\* C7: for an image without polarization channels no step of the per-image
\* pipeline raises, the report written with save_files=True included.
C7_NoErrorWithoutPol ==
    (Len(cfg.raw.qvec) = 0 \/ Len(cfg.raw.uvec) = 0) => pc # "raised"

\* C8: the steps of FindProfileSingle run in the fixed order threshold, Center
\* Search, full-resolution resampling, statistics; thresholding the search copy
\* leaves every pixel of the image used for the final resampling unchanged; and
\* the final bundle is computed at exactly the center Center Search returned.
C8_OrderAndFrame ==
    /\ steps = SubSeq(<<"regrid", "threshold", "findCenter", "compute_ring_profile",
                        "calc_meanprof_and_stats", "save">>, 1, Len(steps))
    /\ im # <<>> => im = regrid_image(cfg.raw)
    /\ pp # <<>> =>
          /\ pp.x0 = res.x /\ pp.y0 = res.y
          /\ pp.profiles = ringProfs(regrid_image(cfg.raw).imvec, res.x, res.y,
                                     linspace0(RMAX, NRS), NRAYS)

C8_Witness ==
    /\ pc = "done" /\ ret = "pp"
    /\ im_search.imvec # im.imvec
    /\ pp.profiles # ringProfs(im_search.imvec, res.x, res.y, linspace0(RMAX, NRS), NRAYS)
    /\ res.moves > 0

\* C10: the center returned by findCenter lies inside the search window, also
\* after the refinement seeded at the best grid point.
C10_CenterInsideWindow ==
    pc \notin {"start", "regrid", "threshold", "findCenter", "fmin"} /\ res # <<>>
        => InWindow(res)


C11_DivisorsFloored ==
    "RingContrast2" \in DOMAIN pp => IsNum(pp.RingContrast2)


\* the distance on the circle between two angles, across the 0 / 2 pi wrap
CircDist(a, b) ==
    IF (Abs(a - b) % Turn) <= Turn - (Abs(a - b) % Turn)
    THEN Abs(a - b) % Turn
    ELSE Turn - (Abs(a - b) % Turn)

\* C12: a pixel is in the bright half-plane mask exactly when the distance on
\* the circle between its position angle and the orientation angle is at most
\* a quarter turn.
C12_WithinQuarterTurn ==
    call # <<>> /\ call.f = "anglemask" /\ call.out # <<>> =>
        (call.out.mask <=> CircDist(call.out.ang, call.cangle) <= QuarterTurn)


\* C13: a ray's width enters the ring-width aggregate exactly when it is
\* positive and at most twice the mean-profile width; a width equal to twice
\* the mean-profile width is included.
C13_WidthAtTwiceIncluded ==
    call # <<>> /\ call.f = "RingWidth" /\ call.out # <<>> =>
        call.out.ringwidths =
            SelectSeq(call.widths,
                      LAMBDA w : QLt(I(0), w) /\ QLe(w, QMul(I(2), call.meanprof_width)))

\* C14: calc_width returns (lh, rh) with lh the largest root strictly below
\* the peak radius, or rs[0] if there is none, and rh the smallest root at or
\* above the peak radius, or rs[-1] if there is none; hence
\* lh <= peak radius <= rh.
C14_BracketsPeak ==
    call # <<>> /\ call.f = "calc_width" /\ call.out # <<>> =>
        LET below == {i \in 1..Len(call.roots) : QLt(call.roots[i], call.out.pkrad)}
            above == {i \in 1..Len(call.roots) : QLe(call.out.pkrad, call.roots[i])}
        IN  /\ call.out.lh = IF below = {} THEN call.self.rs[1]
                             ELSE call.roots[CHOOSE i \in below : \A j \in below : j <= i]
            /\ call.out.rh = IF above = {} THEN call.self.rs[call.self.nrs]
                             ELSE call.roots[CHOOSE i \in above : \A j \in above : i <= j]
            /\ QLe(call.out.lh, call.out.pkrad)
            /\ QLe(call.out.pkrad, call.out.rh)


\* C15: the width is computed on a profile zeroed against the outer level,
\* both for the mean profile and for each individual ray.
C15_RaysZeroed ==
    "rprof" \in DOMAIN pp =>
        /\ pp.meanprof_zeroed = Arr([r \in 1..pp.nrs |-> QSub(pp.meanprof[r], pp.out_level)])
        /\ \A a \in 1..pp.nang :
              pp.rprof[a] = Arr([r \in 1..pp.nrs |-> QSub(pp.profiles[a][r], pp.out_level)])


\* C16: when the off-source pixel set is empty the dynamic-range computation
\* does not crash, std_offsource is a defined number at least EP and
\* dynamic_range is the defined number impeak / std_offsource.
C16_EmptyOffsourceDefined ==
    call # <<>> /\ call.f = "dynamic_range" /\ call.out # <<>>
            /\ call.out.offsource_vec = <<>> =>
        /\ IsNum(call.out.std_offsource)
        /\ IsNum(call.out.dynamic_range)

\* C19: the bright-half and dim-half masks partition the annulus mask, and
\* RingFlux = brightflux + dimflux is the sum of the raw flux over the annulus
\* pixels, for every orientation angle.
C19_HalvesPartitionAnnulus ==
    call # <<>> /\ call.f = "halves" /\ call.out # <<>> =>
        /\ \A i \in 1..MaskPix :
              /\ ~(call.out.bright[i] /\ call.out.dim[i])
              /\ (call.out.bright[i] \/ call.out.dim[i]) <=> (call.inner[i] # call.outer[i])
        /\ call.out.brightflux + call.out.dimflux
              = VecSum([i \in 1..MaskPix |->
                          IF call.inner[i] # call.outer[i] THEN call.imvec[i] ELSE 0])

\* an annulus holding a bright-half pixel and a dim-half pixel, and a lit pixel outside it
C19_Witness ==
    /\ call # <<>> /\ call.f = "halves" /\ call.out # <<>>
    /\ \E i, j, k \in 1..MaskPix :
          /\ call.out.bright[i] /\ call.out.dim[j]
          /\ ~call.out.annulus[k] /\ call.imvec[k] > 0
          /\ ~maskvec_ang(MaskPix, call.cangle)[k]


\* C17: calc_meanprof_and_stats is read-only over its input: the profile
\* arrays, the grids, the per-ray peaks and diameters, the center and the
\* pixel vector of self.im are the same after it returns.
C17_StatsReadOnly ==
    [][pc = "calc_meanprof_and_stats" =>
          /\ im' = im
          /\ \A f \in {"profiles", "profilesQ", "profilesU", "nang", "nthetas", "nrs",
                       "rs", "dr", "pks", "diameters", "x0", "y0"} : pp'[f] = pp[f]]_vars

\* the statistics have been computed on an image with lit pixels
C17_Witness ==
    /\ Len(steps) > 0
    /\ steps[Len(steps)] = "calc_meanprof_and_stats"
    /\ "dynamic_range" \in pp.attrs
    /\ VecMax(im.imvec) > 0


\* C18: every bundle built by compute_ring_profile has nrays rows of nrs
\* values, nang = len(thetas) = nrays, nrs = len(rs), one peak and one
\* diameter per ray, and stores the radius grid (0 to rmax, uniform, dr the
\* difference of the last two radii) along which the rays were sampled.
C18_BundleShape ==
    call # <<>> /\ call.f = "compute_ring_profile" /\ call.out # <<>> =>
        /\ Len(call.out.profiles) = call.nrays
        /\ \A a \in 1..call.nrays : Len(call.out.profiles[a]) = call.nrs
        /\ call.out.nang = call.nrays /\ call.out.nthetas = call.nrays
        /\ call.out.nrs = call.nrs /\ Len(call.out.rs) = call.nrs
        /\ Len(call.out.pks) = call.nrays /\ Len(call.out.diameters) = call.nrays
        /\ call.out.rs[1] = I(0) /\ call.out.rs[call.nrs] = I(call.rmax)
        /\ \A i \in 1..(call.nrs - 1) :
              QSub(call.out.rs[i + 1], call.out.rs[i]) = call.out.dr
        /\ call.out.profiles
              = ringProfs(call.image.imvec, call.x0, call.y0, call.out.rs, call.nrays)

\* a bundle of several rays on a grid other than the pipeline's
C18_Witness ==
    /\ call # <<>> /\ call.f = "compute_ring_profile" /\ call.out # <<>>
    /\ call.nrays = NRAYS /\ call.nrs < NRS /\ call.rmax < RMAX
    /\ \E a \in 1..call.nrays : IsNum(call.out.pks[a]) /\ QLt(I(0), call.out.pks[a])


\* C20: the report path tested for the rerun=False skip is the path written
\* with save_files=True, for .fits and .h5 and every tag: after a run with
\* save_files=True a second run on the same image returns -1 without
\* processing when rerun=False, and reprocesses when rerun=True.
C20_SecondRunSkips ==
    /\ files # {} => SkipTxtName(cfg) \in files
    /\ "again" \in Range(steps) /\ pc \in {"done", "raised"} =>
          IF cfg.rerun
          THEN steps[Len(steps)] # "again" /\ ret # "-1"
          ELSE steps[Len(steps)] = "again" /\ ret = "-1"


===========================================================================
